---- MODULE Spec2Model ----
(***************************************************************************)
(* Connectly campaign analysis (src/app.py): a Streamlit script that is    *)
(* re-executed from top to bottom on every upload and every widget change. *)
(* The session keeps the uploaded file and the three multiselect values;   *)
(* everything else (df, filtered_df, funnel_data, the download data) is    *)
(* rebuilt by each run.                                                    *)
(***************************************************************************)
EXTENDS Integers, Sequences, FiniteSets, TLC

VARIABLES
    uploaded_file,       \* st.file_uploader value: NoFile or a parsed CSV table
    outcome,             \* what the last run produced: idle / staged / schema_error / crashed / rendered
    df,                  \* the enriched dataframe (sequence of rows)
    selected_countries,  \* value of the "Select Country" multiselect
    selected_months,     \* value of the "Select Month" multiselect
    selected_campaigns,  \* value of the "Select Campaign" multiselect
    filtered_df,         \* df restricted by the three selections
    funnel_data,         \* groupby('Country').agg(...): one record per country
    download,            \* data handed to st.download_button (CSV lines)
    series,              \* trend calculator input: monthly counts of one series
    mom                  \* trend calculator output: month-over-month values

vars == <<uploaded_file, outcome, df, selected_countries, selected_months,
          selected_campaigns, filtered_df, funnel_data, download, series, mom>>

pipeline_vars == <<uploaded_file, outcome, df, selected_countries, selected_months,
                   selected_campaigns, filtered_df, funnel_data, download>>

trend_vars == <<series, mom>>

-----------------------------------------------------------------------------
(* Bounds of the model.                                                    *)

\* Largest number of data rows in an uploaded CSV file.
MaxRows == 2

\* Longest monthly series handed to the trend calculator.
MaxSeries == 4

-----------------------------------------------------------------------------
(* Dataframe values.  Every cell is a record with a kind, so that cells of  *)
(* different Python types can be compared.                                  *)

NaN == [kind |-> "nan"]
NaT == [kind |-> "nat"]
Str(s) == [kind |-> "str", text |-> s]
Num(s) == [kind |-> "num", text |-> s]
Bool(b) == [kind |-> "bool", val |-> b]
Timestamp(y, m, d) == [kind |-> "ts", year |-> y, month |-> m, day |-> d, hour |-> 0]

\* Series.notna(): NaN and NaT are the missing values.
notna(v) == v.kind \notin {"nan", "nat"}

\* str(x) / Series.astype(str): a missing value becomes the text "nan".
str(v) == IF v.kind = "nan" THEN "nan" ELSE v.text

-----------------------------------------------------------------------------
(* get_country and the two libraries it calls.                             *)

\* phonenumbers.parse(number, None): the parsed number, or NumberParseException
\* (ok = FALSE).  "+1234567" parses as country calling code 1 with the
\* national number 234567; a text with no digits does not parse.
phonenumbers_parse(number) ==
    CASE number = "+971501234567" -> [ok |-> TRUE, country_code |-> 971, national_number |-> "501234567"]
      [] number = "+20100000000"  -> [ok |-> TRUE, country_code |-> 20,  national_number |-> "100000000"]
      [] number = "+966500000000" -> [ok |-> TRUE, country_code |-> 966, national_number |-> "500000000"]
      [] number = "+80012345678"  -> [ok |-> TRUE, country_code |-> 800, national_number |-> "12345678"]
      [] number = "+1234567"      -> [ok |-> TRUE, country_code |-> 1,   national_number |-> "234567"]
      [] OTHER                    -> [ok |-> FALSE, country_code |-> 0,  national_number |-> ""]

\* Python's None, among region codes and country names.
None == "None"

\* phonenumbers.region_code_for_number: the only region of a calling code
\* with one region ("001" for the non-geographic code 800); for a calling
\* code shared by several regions (1) the region whose numbering plan the
\* national number fits, and None when it fits none.
region_code_for_number(parsed_number) ==
    CASE parsed_number.country_code = 971 -> "AE"
      [] parsed_number.country_code = 20  -> "EG"
      [] parsed_number.country_code = 966 -> "SA"
      [] parsed_number.country_code = 800 -> "001"
      [] OTHER -> None

\* pycountry.countries.get(alpha_2=...): raises for a value that is not a
\* string (LookupError; AttributeError or KeyError in older releases), returns
\* None for a code with no country entry.
pycountry_countries_get(alpha_2) ==
    CASE alpha_2 = None -> [raised |-> TRUE,  name |-> None]
      [] alpha_2 = "AE" -> [raised |-> FALSE, name |-> "United Arab Emirates"]
      [] alpha_2 = "EG" -> [raised |-> FALSE, name |-> "Egypt"]
      [] alpha_2 = "SA" -> [raised |-> FALSE, name |-> "Saudi Arabia"]
      [] OTHER          -> [raised |-> FALSE, name |-> None]

\* get_country(phone_number): only NumberParseException is caught.
get_country(phone_number) ==
    LET parsed_number == phonenumbers_parse("+" \o str(phone_number))
    IN  IF ~parsed_number.ok
        THEN [raised |-> FALSE, value |-> "Invalid"]
        ELSE LET country_code == region_code_for_number(parsed_number)
                 country == pycountry_countries_get(country_code)
             IN  IF country.raised
                 THEN [raised |-> TRUE, value |-> None]
                 ELSE [raised |-> FALSE,
                       value |-> IF country.name # None THEN country.name ELSE "Unknown"]

-----------------------------------------------------------------------------
(* Enrichment (the else branch of the schema check, up to the month        *)
(* columns).                                                               *)

required_columns == {"customer_external_id", "campaign_name", "dispatched_at",
                     "sent_at", "delivered_at", "read_at", "link_clicks"}

\* pd.to_datetime(col, errors='coerce'): a text that is a date becomes a
\* timestamp, every other text and every missing value becomes NaT; a value
\* that already is a timestamp is kept.
to_datetime(v) ==
    CASE v.kind = "ts" -> v
      [] v.kind = "str" /\ v.text = "2024-01-05" -> Timestamp(2024, 1, 5)
      [] v.kind = "str" /\ v.text = "2024-01-06" -> Timestamp(2024, 1, 6)
      [] v.kind = "str" /\ v.text = "2024-01-07" -> Timestamp(2024, 1, 7)
      [] v.kind = "str" /\ v.text = "2024-02-01" -> Timestamp(2024, 2, 1)
      [] OTHER -> NaT

\* Faulty variant of the click flag: "0" and "false" count as not clicked.
Clicked_truthy(link_clicks) ==
    Bool(notna(link_clicks) /\ link_clicks.text \notin {"", "0", "false"})

\* df['link_clicks'].notna() & (df['link_clicks'] != '')
Clicked(link_clicks) ==
    Bool(notna(link_clicks) /\ ~(link_clicks.kind = "str" /\ link_clicks.text = ""))

Pad2(n) == IF n < 10 THEN "0" \o ToString(n) ELSE ToString(n)

\* Faulty variant of the month bucket: NaT stays a missing value.
to_period_M_str_null(ts) ==
    IF ts.kind = "ts" THEN Str(ToString(ts.year) \o "-" \o Pad2(ts.month)) ELSE NaN

\* .dt.to_period('M').astype(str): "YYYY-MM", and the text "NaT" for NaT.
to_period_M_str(ts) ==
    IF ts.kind = "ts" THEN Str(ToString(ts.year) \o "-" \o Pad2(ts.month)) ELSE Str("NaT")

DayNames == <<"Sunday", "Monday", "Tuesday", "Wednesday", "Thursday", "Friday", "Saturday">>

MonthOffsets == <<0, 3, 2, 5, 0, 3, 5, 1, 4, 6, 2, 4>>

\* .dt.day_name(): the English weekday of the date, NaN for NaT.
day_name(ts) ==
    IF ts.kind # "ts" THEN NaN
    ELSE LET y == IF ts.month < 3 THEN ts.year - 1 ELSE ts.year
             w == (y + (y \div 4) - (y \div 100) + (y \div 400)
                     + MonthOffsets[ts.month] + ts.day) % 7
         IN  Str(DayNames[w + 1])

\* .dt.hour: NaN for NaT.
hour(ts) == IF ts.kind # "ts" THEN NaN ELSE Num(ToString(ts.hour))

\* The columns the script adds, in the order it adds them.
derived_columns == <<"Country", "Clicked", "read_day", "read_hour", "dispatched_month",
                     "sent_month", "delivered_month", "read_month", "clicked_month">>

SeqToSet(s) == {s[i] : i \in DOMAIN s}

\* One row of df after the enrichment block, given the country the row got.
enrich_row(row, country) ==
    LET dispatched_at == to_datetime(row.dispatched_at)
        sent_at       == to_datetime(row.sent_at)
        delivered_at  == to_datetime(row.delivered_at)
        read_at       == to_datetime(to_datetime(row.read_at))
        new == [customer_external_id |-> Str(str(row.customer_external_id)),
                dispatched_at    |-> dispatched_at,
                sent_at          |-> sent_at,
                delivered_at     |-> delivered_at,
                read_at          |-> read_at,
                Country          |-> Str(country),
                Clicked          |-> Clicked(row.link_clicks),
                read_day         |-> day_name(read_at),
                read_hour        |-> hour(read_at),
                dispatched_month |-> to_period_M_str(dispatched_at),
                sent_month       |-> to_period_M_str(sent_at),
                delivered_month  |-> to_period_M_str(delivered_at),
                read_month       |-> to_period_M_str(read_at),
                clicked_month    |-> to_period_M_str(dispatched_at)]
    IN  [c \in DOMAIN row \cup DOMAIN new |-> IF c \in DOMAIN new THEN new[c] ELSE row[c]]

\* df['customer_external_id'].astype(str).apply(get_country), row by row.
country_of(row) == get_country(Str(str(row.customer_external_id)))

\* The enrichment block over the whole table: it raises when get_country
\* raises for some row, and otherwise keeps every row.
enrich(rows) ==
    IF \E i \in DOMAIN rows : country_of(rows[i]).raised
    THEN [raised |-> TRUE, rows |-> <<>>]
    ELSE [raised |-> FALSE,
          rows |-> [i \in DOMAIN rows |-> enrich_row(rows[i], country_of(rows[i]).value)]]

-----------------------------------------------------------------------------
(* Sidebar filters, filter, aggregation, download.                         *)

\* Faulty variant of the preset: one country is missing.
preset_countries_short ==
    {Str("Egypt"), Str("Kuwait"), Str("Iraq"), Str("Bahrain"), Str("Jordan"), Str("Oman"),
     Str("Qatar")}

preset_countries == {Str("Egypt"), Str("Kuwait"), Str("United Arab Emirates"), Str("Iraq"),
                     Str("Bahrain"), Str("Jordan"), Str("Oman"), Str("Qatar")}

\* df[col].unique(), as a set (the order of first appearance is not modelled).
unique(rows, col) == {rows[i][col] : i \in DOMAIN rows}

\* st.sidebar.multiselect(label, options, default=...): the default until the
\* user changes the widget, the user's choice afterwards.  The widget's own
\* comparison of the default with the options is not modelled: the value is
\* the default as the script passes it.
multiselect(widget, default) == IF widget.touched THEN widget.value ELSE default

Untouched == [touched |-> FALSE, value |-> {}]

Chosen(S) == [touched |-> TRUE, value |-> S]

\* Series.isin(values)
isin(v, values) == v \in values

\* Faulty variant of the mask: the campaign condition is left out.
filter_mask_no_campaign(row, countries, months, campaigns) ==
    /\ isin(row.Country, countries)
    /\ isin(row.dispatched_month, months)

\* The boolean mask of filtered_df for one row.
filter_mask(row, countries, months, campaigns) ==
    /\ isin(row.Country, countries)
    /\ isin(row.dispatched_month, months)
    /\ isin(row.campaign_name, campaigns)

\* filtered_df = df[mask]: the rows of df whose mask is true, in df's order.
filter_df(rows, countries, months, campaigns) ==
    SelectSeq(rows, LAMBDA row : filter_mask(row, countries, months, campaigns))

\* Faulty variant of 'count': the size of the group, missing values included.
count_size(rows, col) == Len(rows)

\* The aggregation 'count' (and lambda x: x.notna().sum()): non-missing values.
count(rows, col) == Cardinality({i \in DOMAIN rows : notna(rows[i][col])})

\* The aggregation 'sum' over a boolean column.
sum_bool(rows, col) == Cardinality({i \in DOMAIN rows : rows[i][col] = Bool(TRUE)})

\* The rows of one group of groupby('Country').
group(rows, key) == SelectSeq(rows, LAMBDA row : row.Country = key)

\* The aggregate row of one group.
agg(rows, key) ==
    [Country    |-> key,
     Dispatched |-> count(group(rows, key), "dispatched_at"),
     Sent       |-> count(group(rows, key), "sent_at"),
     Delivered  |-> count(group(rows, key), "delivered_at"),
     Read       |-> count(group(rows, key), "read_at"),
     Clicked    |-> sum_bool(group(rows, key), "Clicked")]

\* filtered_df.groupby('Country').agg(...).reset_index(): one row per country
\* of filtered_df (groupby drops missing keys); the order of the groups is not
\* modelled.
groupby_agg(rows) == {agg(rows, key) : key \in {k \in unique(rows, "Country") : notna(k)}}

\* How to_csv writes one value.
csv_value(v) ==
    CASE v.kind = "str"  -> v.text
      [] v.kind = "num"  -> v.text
      [] v.kind = "bool" -> IF v.val THEN "True" ELSE "False"
      [] v.kind = "ts"   -> ToString(v.year) \o "-" \o Pad2(v.month) \o "-" \o Pad2(v.day)
      [] OTHER           -> ""

\* convert_df(df): df.to_csv(index=False), the header line and one line per row.
convert_df(table) ==
    <<table.columns>> \o
    [i \in DOMAIN table.rows |-> [j \in DOMAIN table.columns |->
                                    csv_value(table.rows[i][table.columns[j]])]]

\* Faulty variant of the download: the filtered table is exported.
download_data_filtered(enriched, filtered) == convert_df(filtered)

\* The argument of convert_df in the download button: the enriched df.
download_data(enriched, filtered) == convert_df(enriched)

-----------------------------------------------------------------------------
(* One execution of the script.                                            *)

NoFile == [columns |-> <<>>, rows |-> <<>>]

EmptyTable == [columns |-> <<>>, rows |-> <<>>]

\* What a run that renders no dashboard leaves behind.
Nothing(result) ==
    [outcome |-> result, df |-> EmptyTable, selected_countries |-> {},
     selected_months |-> {}, selected_campaigns |-> {}, filtered_df |-> EmptyTable,
     funnel_data |-> {}, download |-> <<>>]

\* The dashboard branch, for an enriched table and the three widgets.
render(enriched, w_countries, w_months, w_campaigns) ==
    LET countries == multiselect(w_countries, preset_countries)
        months    == multiselect(w_months, unique(enriched.rows, "dispatched_month"))
        campaigns == multiselect(w_campaigns, unique(enriched.rows, "campaign_name"))
        filtered  == [columns |-> enriched.columns,
                      rows |-> filter_df(enriched.rows, countries, months, campaigns)]
    IN  [outcome |-> "rendered", df |-> enriched, selected_countries |-> countries,
         selected_months |-> months, selected_campaigns |-> campaigns,
         filtered_df |-> filtered, funnel_data |-> groupby_agg(filtered.rows),
         download |-> download_data(enriched, filtered)]

\* Faulty variant of the schema check: the columns must be exactly the
\* required ones.
schema_ok_exact(file) == SeqToSet(file.columns) = required_columns

\* The schema check.
schema_ok(file) == required_columns \subseteq SeqToSet(file.columns)

\* The whole script body for the session's file and widget values.
script(file, w_countries, w_months, w_campaigns) ==
    IF file = NoFile THEN Nothing("idle")
    ELSE IF ~schema_ok(file) THEN Nothing("schema_error")
    ELSE LET e == enrich(file.rows)
         IN  IF e.raised THEN Nothing("crashed")
             ELSE render([columns |-> file.columns \o derived_columns, rows |-> e.rows],
                         w_countries, w_months, w_campaigns)

\* Faulty variant of a run: an aggregate already on display is kept while the
\* same file stays uploaded.
Rerun_stale(result) ==
    /\ outcome' = result.outcome
    /\ df' = result.df
    /\ selected_countries' = result.selected_countries
    /\ selected_months' = result.selected_months
    /\ selected_campaigns' = result.selected_campaigns
    /\ filtered_df' = result.filtered_df
    /\ funnel_data' = IF outcome = "rendered" /\ result.outcome = "rendered" /\ df = result.df
                       THEN funnel_data ELSE result.funnel_data
    /\ download' = result.download

\* The variables after a run.
Rerun(result) ==
    /\ outcome' = result.outcome
    /\ df' = result.df
    /\ selected_countries' = result.selected_countries
    /\ selected_months' = result.selected_months
    /\ selected_campaigns' = result.selected_campaigns
    /\ filtered_df' = result.filtered_df
    /\ funnel_data' = result.funnel_data
    /\ download' = result.download

-----------------------------------------------------------------------------
(* The CSV files of the model.                                             *)

ColumnOrder == <<"customer_external_id", "campaign_name", "dispatched_at", "sent_at",
                 "delivered_at", "read_at", "link_clicks", "notes">>

BaseRow ==
    [customer_external_id |-> Str("971501234567"), campaign_name |-> Str("Promo"),
     dispatched_at |-> Str("2024-01-05"), sent_at |-> Str("2024-01-05"),
     delivered_at |-> Str("2024-01-06"), read_at |-> Str("2024-01-07"),
     link_clicks |-> Str("http://x"), notes |-> Str("vip")]

\* The rows of the session's files: the base row, and the base row with one
\* cell changed.
Edits ==
    << <<"customer_external_id", Str("abc")>>,
       <<"campaign_name", Str("Sale")>>,
       <<"dispatched_at", Str("2024-02-01")>>,
       <<"dispatched_at", Str("not a date")>>,
       <<"dispatched_at", NaN>>,
       <<"sent_at", NaN>>,
       <<"delivered_at", NaN>>,
       <<"read_at", NaN>>,
       <<"link_clicks", NaN>> >>

RowOf(k) == IF k = 0 THEN BaseRow ELSE [BaseRow EXCEPT ![Edits[k][1]] = Edits[k][2]]

\* Row choices of a file with at most MaxRows rows (rows in the order of Edits:
\* the script treats rows alike whatever their order).
RowChoices ==
    {idx \in UNION {[1..n -> 0..Len(Edits)] : n \in 0..MaxRows} :
        \A i, j \in DOMAIN idx : i < j => idx[i] <= idx[j]}

RowsOf(idx) == [i \in DOMAIN idx |-> RowOf(idx[i])]

\* A row whose identifier parses as a phone number of no region.
NoRegionRow == [BaseRow EXCEPT !.customer_external_id = Str("1234567")]

\* Every cell value of the model, column by column.
WideRows ==
    [customer_external_id : {Str("971501234567"), Str("20100000000"), Str("966500000000"),
                             Str("80012345678"), Str("1234567"), Str("abc"), Str(""), NaN},
     campaign_name : {Str("Promo"), Str("Sale")},
     dispatched_at : {Str("2024-01-05"), Str("2024-02-01"), Str("not a date"), NaN},
     sent_at       : {Str("2024-01-05"), NaN},
     delivered_at  : {Str("2024-01-06"), NaN},
     read_at       : {Str("2024-01-07"), NaN},
     link_clicks   : {Str("http://x"), Str("0"), Str("false"), Str(""), Num("0"), NaN},
     notes         : {Str("vip")}]

\* The column lists: the required columns, the required columns and an extra
\* one, and the required columns but one.
ColumnChoices ==
    {SelectSeq(ColumnOrder, LAMBDA c : c \in cs) :
        cs \in {required_columns, required_columns \cup {"notes"}}
               \cup {required_columns \ {c} : c \in required_columns}}

\* pd.read_csv: the table of a file with these columns and these rows.
File(columns, rows) ==
    [columns |-> columns,
     rows |-> [i \in DOMAIN rows |-> [c \in SeqToSet(columns) |-> rows[i][c]]]]

\* The files uploaded during a session: exports with the required columns and
\* a notes column, header-only files of every column list, and a file whose
\* identifier has no region.
Files ==
    {File(ColumnOrder, RowsOf(idx)) : idx \in RowChoices}
    \cup {File(cols, <<>>) : cols \in ColumnChoices}
    \cup {File(ColumnOrder, <<NoRegionRow>>)}

\* The files of a single run: every column list with the session's rows, and
\* with every one-row table.
StagedFiles ==
    {File(cols, RowsOf(idx)) : cols \in ColumnChoices, idx \in RowChoices}
    \cup {File(cols, <<row>>) : cols \in ColumnChoices, row \in WideRows}

-----------------------------------------------------------------------------
(* The session: uploads and widget changes, each followed by a run.        *)

Init ==
    /\ uploaded_file = NoFile
    /\ outcome = "idle"
    /\ df = EmptyTable
    /\ selected_countries = {}
    /\ selected_months = {}
    /\ selected_campaigns = {}
    /\ filtered_df = EmptyTable
    /\ funnel_data = {}
    /\ download = <<>>
    /\ series = <<>>
    /\ mom = <<>>

\* The run that follows an upload, file by file (the script is a function of
\* the file and the widget values).
FirstRun == [file \in Files |-> script(file, Untouched, Untouched, Untouched)]

\* The user uploads a file: the widgets are new and show their defaults.
Upload ==
    \E file \in Files :
        /\ uploaded_file' = file
        /\ Rerun(FirstRun[file])
        /\ UNCHANGED trend_vars

\* The user removes the file.
ClearFile ==
    /\ uploaded_file # NoFile
    /\ uploaded_file' = NoFile
    /\ Rerun(script(NoFile, Untouched, Untouched, Untouched))
    /\ UNCHANGED trend_vars

SelectCountry ==
    /\ outcome = "rendered"
    /\ \E S \in SUBSET unique(df.rows, "Country") :
        /\ S # selected_countries
        /\ Rerun(script(uploaded_file, Chosen(S), Chosen(selected_months),
                        Chosen(selected_campaigns)))
    /\ UNCHANGED <<uploaded_file, trend_vars>>

SelectMonth ==
    /\ outcome = "rendered"
    /\ \E S \in SUBSET unique(df.rows, "dispatched_month") :
        /\ S # selected_months
        /\ Rerun(script(uploaded_file, Chosen(selected_countries), Chosen(S),
                        Chosen(selected_campaigns)))
    /\ UNCHANGED <<uploaded_file, trend_vars>>

SelectCampaign ==
    /\ outcome = "rendered"
    /\ \E S \in SUBSET unique(df.rows, "campaign_name") :
        /\ S # selected_campaigns
        /\ Rerun(script(uploaded_file, Chosen(selected_countries), Chosen(selected_months),
                        Chosen(S)))
    /\ UNCHANGED <<uploaded_file, trend_vars>>

Next == Upload \/ ClearFile \/ SelectCountry \/ SelectMonth \/ SelectCampaign

Spec == Init /\ [][Next]_vars

-----------------------------------------------------------------------------
(* A single run of the script on a file that has just been uploaded.       *)

InitRun ==
    /\ uploaded_file \in StagedFiles
    /\ outcome = "staged"
    /\ df = EmptyTable
    /\ selected_countries = {}
    /\ selected_months = {}
    /\ selected_campaigns = {}
    /\ filtered_df = EmptyTable
    /\ funnel_data = {}
    /\ download = <<>>
    /\ series = <<>>
    /\ mom = <<>>

RunScript ==
    /\ outcome = "staged"
    /\ Rerun(script(uploaded_file, Untouched, Untouched, Untouched))
    /\ UNCHANGED <<uploaded_file, trend_vars>>

NextRun == RunScript

SpecRun == InitRun /\ [][NextRun]_vars

-----------------------------------------------------------------------------
(* The trend calculator: month-over-month change of one metric of one      *)
(* (country, campaign) series, months ascending.                            *)

Metrics == {"Dispatched", "Sent", "Read", "Clicked"}

CountValues == {0, 5, 10, 15}

\* A percentage, as an exact fraction.
Fraction(n, d) == [num |-> n, den |-> d]

\* Faulty variant of the month-over-month value: no clamp for a zero
\* previous count.
pct_change_unclamped(counts, i) ==
    IF i = 1 THEN Fraction(0, 1)
    ELSE Fraction((counts[i] - counts[i - 1]) * 100, counts[i - 1])

\* Month i of the series: 0 for the first month and for a zero previous
\* count, (V_i - V_{i-1}) / V_{i-1} * 100 otherwise.
pct_change(counts, i) ==
    IF i = 1 THEN Fraction(0, 1)
    ELSE IF counts[i - 1] = 0 THEN Fraction(0, 1)
    ELSE Fraction((counts[i] - counts[i - 1]) * 100, counts[i - 1])

trend(counts) == [i \in DOMAIN counts |-> pct_change(counts, i)]

InitTrend ==
    /\ uploaded_file = NoFile
    /\ outcome = "idle"
    /\ df = EmptyTable
    /\ selected_countries = {}
    /\ selected_months = {}
    /\ selected_campaigns = {}
    /\ filtered_df = EmptyTable
    /\ funnel_data = {}
    /\ download = <<>>
    /\ series \in [metric : Metrics,
                   counts : UNION {[1..n -> CountValues] : n \in 1..MaxSeries}]
    /\ mom = <<>>

ComputeTrend ==
    /\ mom = <<>>
    /\ mom' = trend(series.counts)
    /\ UNCHANGED <<series, pipeline_vars>>

NextTrend == ComputeTrend

SpecTrend == InitTrend /\ [][NextTrend]_vars

-----------------------------------------------------------------------------
(* Properties.                                                             *)

\* The seven required column names, and the curated country list, written out.
SevenColumns == {"customer_external_id", "campaign_name", "dispatched_at", "sent_at",
                 "delivered_at", "read_at", "link_clicks"}

EightCountries == {Str("Egypt"), Str("Kuwait"), Str("United Arab Emirates"), Str("Iraq"),
                   Str("Bahrain"), Str("Jordan"), Str("Oman"), Str("Qatar")}

\* The texts of the model that are dates.
IsDateText(cell) ==
    cell \in {Str("2024-01-05"), Str("2024-01-06"), Str("2024-01-07"), Str("2024-02-01")}

HasAllSeven == \A c \in SevenColumns : c \in SeqToSet(uploaded_file.columns)

\* How often a row occurs in a table.
Occ(rows, row) == Cardinality({i \in DOMAIN rows : rows[i] = row})

\* Same rows, whatever their order.
SameRows(a, b) == \A row \in SeqToSet(a) \cup SeqToSet(b) : Occ(a, row) = Occ(b, row)

RECURSIVE SumField(_, _)
SumField(groups, f) ==
    IF groups = {} THEN 0
    ELSE LET g == CHOOSE x \in groups : TRUE
         IN  g[f] + SumField(groups \ {g}, f)

\* The positions of df whose row satisfies the three selections.
Kept ==
    {i \in DOMAIN df.rows :
        /\ df.rows[i].Country \in selected_countries
        /\ df.rows[i].dispatched_month \in selected_months
        /\ df.rows[i].campaign_name \in selected_campaigns}

\* C1 (schema gate): once the script has run on a file, a file lacking one of
\* the seven required columns ends in the schema error with no enriched table,
\* no filtered table, no aggregate and no download; a file with all seven
\* (any rows, any extra column) does not end in the schema error.
C1_SchemaGate ==
    outcome # "staged" =>
        /\ ~HasAllSeven =>
              /\ outcome = "schema_error"
              /\ df = EmptyTable
              /\ filtered_df = EmptyTable
              /\ funnel_data = {}
              /\ download = <<>>
        /\ HasAllSeven => outcome # "schema_error"

C1_Witness ==
    /\ outcome = "schema_error"
    /\ Len(uploaded_file.rows) > 0
    /\ "link_clicks" \notin SeqToSet(uploaded_file.columns)

\* C2 (filter): the filtered table holds exactly the enriched rows whose
\* Country, dispatched month and campaign are each in the selection, as often
\* as the enriched table holds them; an empty selection leaves no row.
C2_Filter ==
    outcome = "rendered" =>
        /\ \A row \in SeqToSet(df.rows) \cup SeqToSet(filtered_df.rows) :
              Occ(filtered_df.rows, row) =
                  IF /\ row.Country \in selected_countries
                     /\ row.dispatched_month \in selected_months
                     /\ row.campaign_name \in selected_campaigns
                  THEN Occ(df.rows, row) ELSE 0
        /\ ({} \in {selected_countries, selected_months, selected_campaigns}
               => filtered_df.rows = <<>>)

C2_Witness ==
    /\ outcome = "rendered"
    /\ {} \notin {selected_countries, selected_months, selected_campaigns}
    /\ Len(filtered_df.rows) > 0
    /\ Len(filtered_df.rows) < Len(df.rows)
    /\ \E i \in DOMAIN df.rows :
          /\ df.rows[i].Country \in selected_countries
          /\ df.rows[i].dispatched_month \in selected_months
          /\ df.rows[i].campaign_name \notin selected_campaigns

\* C3 (aggregation conservation): summed over the groups, each funnel count is
\* the count over the whole filtered table; every country of the filtered
\* table has exactly one group.
C3_Conservation ==
    outcome = "rendered" =>
        LET rows == filtered_df.rows
            present(col) == Cardinality({i \in DOMAIN rows : rows[i][col] \notin {NaT, NaN}})
        IN  /\ SumField(funnel_data, "Dispatched") = present("dispatched_at")
            /\ SumField(funnel_data, "Sent") = present("sent_at")
            /\ SumField(funnel_data, "Delivered") = present("delivered_at")
            /\ SumField(funnel_data, "Read") = present("read_at")
            /\ SumField(funnel_data, "Clicked") =
                  Cardinality({i \in DOMAIN rows : rows[i].Clicked = Bool(TRUE)})
            /\ {g.Country : g \in funnel_data} = {rows[i].Country : i \in DOMAIN rows}
            /\ Cardinality(funnel_data) = Cardinality({g.Country : g \in funnel_data})

C3_Witness ==
    /\ outcome = "rendered"
    /\ Cardinality(funnel_data) >= 2
    /\ \E i \in DOMAIN filtered_df.rows : filtered_df.rows[i].dispatched_at = NaT
    /\ SumField(funnel_data, "Dispatched") < Len(filtered_df.rows)

\* C4 (click flag): in every enriched row Clicked is true exactly when the
\* link_clicks cell of the uploaded row is neither missing nor the empty
\* string.
C4_ClickFlag ==
    outcome = "rendered" =>
        /\ Len(df.rows) = Len(uploaded_file.rows)
        /\ \A i \in DOMAIN df.rows :
              df.rows[i].Clicked =
                  Bool(uploaded_file.rows[i].link_clicks \notin {NaN, Str("")})

C4_Witness ==
    /\ outcome = "rendered"
    /\ \E i \in DOMAIN df.rows :
          /\ uploaded_file.rows[i].link_clicks = Str("0")
          /\ df.rows[i].Clicked = Bool(TRUE)

\* C5 (country resolution is total): a run on a file with the seven columns
\* never fails in get_country, and every enriched row has a Country that is
\* a text.
C5_CountryTotal ==
    (outcome # "staged" /\ HasAllSeven) =>
        /\ outcome = "rendered"
        /\ \A i \in DOMAIN df.rows :
              df.rows[i].Country.kind = "str" /\ df.rows[i].Country.text # None

\* A month-over-month value is the number k.
Is(value, k) == value.den # 0 /\ value.num = k * value.den

\* C6 (trend calculator): the month-over-month value is 0 for the first
\* month, (V_i - V_{i-1}) / V_{i-1} * 100 after a non-zero previous count and
\* 0 after a zero previous count; counts 10, 15, 0, 5 give 0, 50, -100, 0.
C6_Trend ==
    mom # <<>> =>
        /\ Len(mom) = Len(series.counts)
        /\ \A i \in DOMAIN mom :
              LET V == series.counts
              IN  /\ i = 1 => Is(mom[i], 0)
                  /\ (i > 1 /\ V[i - 1] # 0) =>
                        /\ mom[i].den # 0
                        /\ mom[i].num * V[i - 1] = (V[i] - V[i - 1]) * 100 * mom[i].den
                  /\ (i > 1 /\ V[i - 1] = 0) => Is(mom[i], 0)
        /\ series.counts = <<10, 15, 0, 5>> =>
              Is(mom[1], 0) /\ Is(mom[2], 50) /\ Is(mom[3], -100) /\ Is(mom[4], 0)

C6_Witness ==
    /\ series.counts = <<10, 15, 0, 5>>
    /\ mom # <<>>
    /\ Is(mom[2], 50)
    /\ Is(mom[3], -100)
    /\ Is(mom[4], 0)

C8_ExportFrame ==
    outcome = "rendered" =>
        LET enriched == enrich(uploaded_file.rows).rows
            columns  == uploaded_file.columns \o derived_columns
        IN  /\ df = [columns |-> columns, rows |-> enriched]
            /\ Len(download) = Len(uploaded_file.rows) + 1
            /\ download[1] = columns
            /\ \A i \in DOMAIN enriched :
                  download[i + 1] = [j \in DOMAIN columns |-> csv_value(enriched[i][columns[j]])]

C8_Witness ==
    /\ outcome = "rendered"
    /\ Len(df.rows) >= 2
    /\ filtered_df.rows = <<>>
    /\ "notes" \in SeqToSet(download[1])
    /\ Len(download) = Len(df.rows) + 1

\* C9 (non-fatal timestamp failure): a run fails only on an identifier, never
\* on a timestamp; the enriched table has as many rows as the file; a row
\* whose dispatched_at is missing or no date has the dispatched month "NaT",
\* is in the filtered table exactly when "NaT", its country and its campaign
\* are selected, and then its group counts the dispatched dates, sent dates,
\* delivered dates, read dates and clicks of the kept rows of its country, the
\* row adding nothing to Dispatched.
C9_TimestampFailure ==
    /\ outcome = "crashed" =>
          \E i \in DOMAIN uploaded_file.rows :
              uploaded_file.rows[i].customer_external_id = Str("1234567")
    /\ outcome = "rendered" =>
          LET raw == uploaded_file.rows
              same(i) == {j \in Kept : df.rows[j].Country = df.rows[i].Country}
          IN  /\ Len(df.rows) = Len(raw)
              /\ \A i \in DOMAIN raw :
                    ~IsDateText(raw[i].dispatched_at) =>
                        /\ df.rows[i].dispatched_month = Str("NaT")
                        /\ Occ(filtered_df.rows, df.rows[i]) > 0 <=>
                              /\ Str("NaT") \in selected_months
                              /\ df.rows[i].Country \in selected_countries
                              /\ df.rows[i].campaign_name \in selected_campaigns
                        /\ i \in Kept =>
                              \E g \in funnel_data :
                                  /\ g.Country = df.rows[i].Country
                                  /\ g.Dispatched =
                                        Cardinality({j \in same(i) : IsDateText(raw[j].dispatched_at)})
                                  /\ g.Sent =
                                        Cardinality({j \in same(i) : IsDateText(raw[j].sent_at)})
                                  /\ g.Delivered =
                                        Cardinality({j \in same(i) : IsDateText(raw[j].delivered_at)})
                                  /\ g.Read =
                                        Cardinality({j \in same(i) : IsDateText(raw[j].read_at)})
                                  /\ g.Clicked =
                                        Cardinality({j \in same(i) :
                                                        raw[j].link_clicks \notin {NaN, Str("")}})

C9_Witness ==
    /\ outcome = "rendered"
    /\ \E i \in Kept :
          /\ uploaded_file.rows[i].dispatched_at = Str("not a date")
          /\ \E g \in funnel_data :
                /\ g.Country = df.rows[i].Country
                /\ g.Dispatched = 0
                /\ g.Sent = 1
                /\ g.Clicked = 1

\* C10 (stateless re-execution): whatever the uploads and selections before,
\* the aggregate on display is the aggregation of the current file's enriched
\* rows under the current selections, and there is none when no dashboard is
\* rendered.
C10_Stateless ==
    /\ outcome = "rendered" =>
          funnel_data = groupby_agg(filter_df(enrich(uploaded_file.rows).rows,
                                              selected_countries, selected_months,
                                              selected_campaigns))
    /\ outcome # "rendered" => funnel_data = {}

C10_Witness ==
    /\ outcome = "rendered"
    /\ Len(df.rows) >= 2
    /\ selected_countries = {Str("Invalid")}
    /\ selected_months = {Str("2024-01")}
    /\ funnel_data = {[Country |-> Str("Invalid"), Dispatched |-> 1, Sent |-> 1,
                       Delivered |-> 1, Read |-> 1, Clicked |-> 1]}

====
